---- MODULE Spec2Model ----
(***************************************************************************)
(* The overlay-compositing editor of xmas-hat-generator (Editor component  *)
(* and its parent App), as a state machine.                                *)
(*                                                                         *)
(* One action is one browser event together with the React render and the  *)
(* effects that follow it: an event handler (or a promise / image callback)*)
(* runs to completion, its state updates are applied as one batch, the     *)
(* component re-renders, and the effects whose dependencies changed run.   *)
(*                                                                         *)
(* Numbers.  JavaScript numbers are modelled in fixed point: canvas        *)
(* coordinates in whole backing pixels, scale in thousandths (ScaleUnit),  *)
(* angles in degrees.  Sums of whole pixels are exact in floating point;   *)
(* angles are not whole numbers in the program, so their sums are rounded: *)
(* the model keeps that rounding, with a significand of SignificandBits    *)
(* bits where the program has 53; the quotient and the product of          *)
(* getRenderDimensions are rounded in the same way.  Other divisions       *)
(* round to the unit; Infinity and NaN of the scale are kept as two        *)
(* distinguished values.                                                   *)
(*                                                                         *)
(* GreetingGenerator and the greeting service are a second, independent    *)
(* component with state of its own.                                        *)
(***************************************************************************)
EXTENDS Integers, Sequences, FiniteSets, Bags, TLC

(***************************************************************************)
(* Bounds of the exploration.                                              *)
(***************************************************************************)
\* number of overlay-add requests (clicks in the selector) explored
MaxRequests == 2
\* number of asset loads that may be in flight at once
MaxPending == 2
\* number of pointer-move events explored: in a whole session, in a
\* session of gestures
SessionMoves == 1
GestureMoves == 2
\* number of background files that may be decoding at once
MaxDecoding == 1
\* number of decodes of one asset path that may be started
MaxDecodes == 2
\* number of copy exports that may be in flight at once
MaxCopies == 1
\* number of milliseconds the clock may advance
MaxClock == 1
\* bits of the significand of an angle
SignificandBits == 6

(***************************************************************************)
(* Program constants.                                                      *)
(***************************************************************************)
MIN_CANVAS_WIDTH == 2048
BASE_HANDLE_RADIUS == 12
\* the canvas of the empty editor
EMPTY_CANVAS_WIDTH == 800
EMPTY_CANVAS_HEIGHT == 600
\* default placement without a background
DEFAULT_X == 400
DEFAULT_Y == 300

(***************************************************************************)
(* Fixed-point representation of `number`.                                 *)
(***************************************************************************)
\* scale is kept in thousandths: 1.0 is ScaleUnit
ScaleUnit == 1000
\* sines and cosines are kept in thousandths
TrigUnit == 1000
\* the two non-finite results of the scale arithmetic
NaN == -1
Infinity == -2

IsFinite(s) == s >= 0

\* Math.max(0.1, 0.1) in scale units: the floor of interactive scaling
MIN_SCALE == ScaleUnit \div 10

Abs(n) == IF n < 0 THEN -n ELSE n

RECURSIVE Pow2(_)
Pow2(e) == IF e = 0 THEN 1 ELSE 2 * Pow2(e - 1)

RECURSIVE Exponent(_)
\* the exponent of m >= 1: 2^Exponent(m) <= m < 2^(Exponent(m) + 1)
Exponent(m) == IF m < 2 THEN 0 ELSE 1 + Exponent(m \div 2)

\* the floating-point number nearest to n, ties to the even significand
RoundToSignificand(n) ==
    IF n = 0 THEN 0
    ELSE LET m == Abs(n)
             e == Exponent(m)
             q == IF e < SignificandBits THEN 1
                  ELSE Pow2(e - SignificandBits + 1)
             lo == (m \div q) * q
             r == m - lo
             up == 2 * r > q \/ (2 * r = q /\ (lo \div q) % 2 = 1)
             res == IF up THEN lo + q ELSE lo
         IN  IF n < 0 THEN -res ELSE res

\* a + b and a - b on angles, as floating point computes them
FAdd(a, b) == RoundToSignificand(a + b)
FSub(a, b) == RoundToSignificand(a - b)

RECURSIVE Normalised(_, _, _)
\* n / d = (n2 / d2) * 2^e with the quotient n2 / d2 in the range of a
\* significand, [2^(SignificandBits - 1), 2^SignificandBits)
Normalised(n, d, e) ==
    IF n >= d * Pow2(SignificandBits) THEN Normalised(n, 2 * d, e + 1)
    ELSE IF n < d * Pow2(SignificandBits - 1) THEN Normalised(2 * n, d, e - 1)
    ELSE [n |-> n, d |-> d, e |-> e]

\* the floating-point number nearest to n / d (n > 0, d > 0), ties to the
\* even significand: the number m * 2^e
FloatOf(n, d) ==
    LET q == Normalised(n, d, 0)
        m == q.n \div q.d
        r == q.n - m * q.d
        up == 2 * r > q.d \/ (2 * r = q.d /\ m % 2 = 1)
    IN  [m |-> IF up THEN m + 1 ELSE m, e |-> q.e]

\* h * f for a whole number h > 0 and a floating-point number f
FTimes(h, f) ==
    IF f.e >= 0 THEN FloatOf(h * f.m * Pow2(f.e), 1)
    ELSE FloatOf(h * f.m, Pow2(-f.e))

\* the whole pixels of a floating-point number (a canvas size and the
\* coordinates of the model are whole)
Whole(f) == IF f.e >= 0 THEN f.m * Pow2(f.e) ELSE f.m \div Pow2(-f.e)

\* the floating-point number is a whole number
IsWhole(f) == f.e >= 0 \/ f.m % Pow2(-f.e) = 0

\* n / d rounded to the nearest integer (d > 0)
RDiv(n, d) == (2 * n + d) \div (2 * d)

RECURSIVE SqrtSearch(_, _, _)
SqrtSearch(n, lo, hi) ==
    IF lo >= hi THEN lo
    ELSE LET mid == (lo + hi + 1) \div 2
         IN  IF mid * mid <= n THEN SqrtSearch(n, mid, hi)
                               ELSE SqrtSearch(n, lo, mid - 1)

\* Math.sqrt on a non-negative integer, rounded down to whole pixels
Sqrt(n) == SqrtSearch(n, 0, 46340)

\* sin of 0..90 degrees, in thousandths
SinTable ==
    << 0, 17, 35, 52, 70, 87, 105, 122, 139, 156, 174, 191, 208,
       225, 242, 259, 276, 292, 309, 326, 342, 358, 375, 391, 407, 423,
       438, 454, 469, 485, 500, 515, 530, 545, 559, 574, 588, 602, 616,
       629, 643, 656, 669, 682, 695, 707, 719, 731, 743, 755, 766, 777,
       788, 799, 809, 819, 829, 839, 848, 857, 866, 875, 883, 891, 899,
       906, 914, 921, 927, 934, 940, 946, 951, 956, 961, 966, 970, 974,
       978, 982, 985, 988, 990, 993, 995, 996, 998, 999, 999, 1000, 1000 >>

\* Math.sin(deg * Math.PI / 180), in thousandths, for any integer deg
Sin(deg) ==
    LET d == deg % 360
    IN  IF d <= 90 THEN SinTable[d + 1]
        ELSE IF d <= 180 THEN SinTable[180 - d + 1]
        ELSE IF d <= 270 THEN -SinTable[d - 180 + 1]
        ELSE -SinTable[360 - d + 1]

\* Math.cos(deg * Math.PI / 180), in thousandths
Cos(deg) == Sin(deg + 90)

\* the angle in 0..89 of a vector (a, b) with a > 0 and b >= 0, rounded down
\* (tan is increasing on 0..89, so the angle is the number of whole
\* degrees whose tangent does not exceed b / a)
QuadrantAngle(a, b) ==
    Cardinality({ k \in 1..89 : Sin(k) * a <= b * Cos(k) })

\* Math.atan2(dy, dx) * (180 / Math.PI) in whole degrees: -180..180, the
\* cut on the negative x axis (atan2(0, dx) is 180 for dx < 0)
WholeAtan2Deg(dy, dx) ==
    IF dx = 0 /\ dy = 0 THEN 0
    ELSE IF dy = 0 /\ dx < 0 THEN 180
    ELSE IF dx > 0 /\ dy >= 0 THEN QuadrantAngle(dx, dy)
    ELSE IF dx <= 0 /\ dy > 0 THEN 90 + QuadrantAngle(dy, -dx)
    ELSE IF dx < 0 /\ dy < 0 THEN -180 + QuadrantAngle(-dx, -dy)
    ELSE -90 + QuadrantAngle(-dy, dx)

\* the angle as the floating-point number the program gets
Atan2Deg(dy, dx) == RoundToSignificand(WholeAtan2Deg(dy, dx))

(***************************************************************************)
(* The environment: overlay assets, background files, the display.         *)
(***************************************************************************)
\* the overlay definitions offered by the selector (STATIC_HATS); the
\* display name plays no role in the editor and is left out
HatDefs ==
    { [id |-> "hat-1", src |-> "/hats/1.png"],
      [id |-> "hat-2", src |-> "/hats/2.png"] }

NoHat == [id |-> "", src |-> ""]

\* the natural size of each asset's raster (img.width, img.height)
RasterWidth(src) == 100
RasterHeight(src) == IF src = "/hats/1.png" THEN 100 ELSE 40

\* files the user submits as background: file.type split at the slash,
\* and the natural size of the decoded image
Files ==
    { [name |-> "a.png", major |-> "image", w |-> 512, h |-> 384],
      [name |-> "b.jpg", major |-> "image", w |-> 4096, h |-> 3072],
      [name |-> "c.txt", major |-> "text", w |-> 0, h |-> 0] }

\* a square avatar narrower than the floor of the backing width
Avatar == [name |-> "d.gif", major |-> "image", w |-> 506, h |-> 506]

\* a flat banner: at the floor of the backing width its height is not a
\* whole number of pixels
Banner == [name |-> "f.webp", major |-> "image", w |-> 1000, h |-> 10]

NoImage == [name |-> "", w |-> 0, h |-> 0]

\* canvas.getBoundingClientRect().width: the canvas is laid out at the
\* full width of its container
DisplayWidth == 1024

\* the two draws (Math.random() - 0.5) * 40 of one placement, each in
\* [-20, 20)
Jitters == { << -20, -20 >>, << 19, 7 >> }

\* the milliseconds by which Date.now() may have advanced since the last
\* time it was read
ClockSteps == 0..MaxClock

\* Date.now() when the session starts, in milliseconds
SessionStartMs == 10

NoUid == << >>

(***************************************************************************)
(* State.                                                                  *)
(***************************************************************************)
VARIABLES
    image,              \* Editor: background image, or NoImage
    hats,               \* Editor: placed overlays, in z-order
    selectedHatId,      \* Editor: uid of the selection, or NoUid
    loadedImages,       \* Editor: asset cache, the set of cached srcs
    mode,               \* Editor: interaction mode
    startInteraction,   \* Editor: baseline of the gesture
    hatToAdd,           \* App: pending overlay-add request, or NoHat
    isCopied,           \* App: the transient "copied" indicator
    canvas,             \* the canvas element: backing size, last render
    pendingLoads,       \* asset decodes in flight (bag of closures)
    pendingFiles,       \* background files being read and decoded
    copies,             \* copy exports in flight (bag of closures)
    now,                \* milliseconds since SessionStartMs
    randomDraws,        \* Math.random() calls made for uids
    curReq,             \* the request that set hatToAdd
    nRequests,          \* overlay-add requests made
    appended,           \* per request, instances appended for it
    decodes,            \* per src, decodes started by loadHatImage
    lastExport,         \* the renders issued by the last finished export
    nMoves,             \* pointer-move events handled
    lastDecode,         \* how the decode of the background raced the others
    apiKey,             \* geminiService: process.env.API_KEY || ''
    service,            \* which geminiService the build has
    greeting,           \* GreetingGenerator: the text shown
    loading,            \* GreetingGenerator: a call is in flight
    copied,             \* GreetingGenerator: its "copied" indicator
    greetingCall,       \* the call of generateChristmasGreeting in flight
    localHats,          \* HatSelector: the definitions found by the probe
    active,             \* HatSelector: the probing effect is not cleaned up
    currentIndex,       \* HatSelector: the index the probe is at
    probing,            \* HatSelector: a load of the probe is in flight
    updaterRuns,        \* when React runs an updater given to a state setter
    nLoads              \* loads the probe has issued

vars ==
    << image, hats, selectedHatId, loadedImages, mode, startInteraction,
       hatToAdd, isCopied, canvas, pendingLoads, pendingFiles, copies,
       now, randomDraws, curReq, nRequests, appended, decodes, lastExport,
       nMoves, lastDecode, apiKey, service, greeting, loading, copied,
       greetingCall, localHats, active, currentIndex, probing, updaterRuns,
       nLoads >>

sceneVars == << image, hats, selectedHatId, loadedImages >>
gestureVars == << mode, startInteraction >>
appVars == << hatToAdd, isCopied, curReq, nRequests >>
loadVars == << pendingLoads, decodes >>
uidVars == << now, randomDraws >>
exportVars == << copies, lastExport >>
fileVars == << pendingFiles, lastDecode >>
greetingVars == << apiKey, service, greeting, loading, copied, greetingCall >>
selectorVars ==
    << localHats, active, currentIndex, probing, updaterRuns, nLoads >>

(***************************************************************************)
(* Rendering.                                                              *)
(***************************************************************************)
\* getRenderDimensions: scale = MIN_CANVAS_WIDTH / img.width, then
\* height = img.height * scale, each rounded as floating point
GetRenderDimensions(img) ==
    IF img.w >= MIN_CANVAS_WIDTH
    THEN [width |-> img.w, height |-> img.h]
    ELSE [width |-> MIN_CANVAS_WIDTH,
          height |-> Whole(FTimes(img.h, FloatOf(MIN_CANVAS_WIDTH, img.w)))]

\* the canvas element before the first render: the default backing size
\* of a canvas, nothing rendered yet
NewCanvas ==
    [width |-> 300, height |-> 150, controls |-> FALSE,
     rendered |-> "none", resized |-> FALSE,
     hats |-> << >>, selected |-> NoUid]

\* cvsH of draw is a whole number.  canvas.height holds whole numbers only
\* (an assignment drops the fraction), so it can be equal to no other cvsH.
HeightIsWhole(img) ==
    \/ img.w >= MIN_CANVAS_WIDTH
    \/ IsWhole(FTimes(img.h, FloatOf(MIN_CANVAS_WIDTH, img.w)))

\* draw assigns canvas.width and canvas.height: with a background if
\* canvas.width !== cvsW || canvas.height !== cvsH, without one always
AssignsSize(cv, img) ==
    IF img = NoImage THEN TRUE
    ELSE LET d == GetRenderDimensions(img)
         IN  \/ cv.width # d.width
             \/ cv.height # d.height
             \/ ~ HeightIsWhole(img)

\* draw(showControls) on the canvas cv in a closure whose background is
\* img, whose instances are hs and whose selection is sel: the backing
\* size the canvas has afterwards, whether controls were asked for, the
\* background rendered, whether the size was assigned although the render
\* before this one had the same background, the instances painted and the
\* selection whose controls are painted when controls were asked for
Draw(cv, showControls, img, hs, sel) ==
    LET d == IF img # NoImage THEN GetRenderDimensions(img)
             ELSE [width |-> EMPTY_CANVAS_WIDTH,
                   height |-> EMPTY_CANVAS_HEIGHT]
    IN  [width |-> d.width, height |-> d.height,
         controls |-> showControls,
         rendered |-> img.name,
         resized |-> cv.rendered = img.name /\ AssignsSize(cv, img),
         hats |-> hs, selected |-> sel]

\* the hats.forEach of draw: an instance is painted if the cache holds the
\* raster of its src
Painted(hs, cache) == SelectSeq(hs, LAMBDA hat : hat.src \in cache)

\* the draw effect: useEffect(() => draw(), [draw]) after a render in
\* which one of draw's dependencies changed
Redraw(changed) ==
    canvas' = IF changed
              THEN Draw(canvas, TRUE, image',
                        Painted(hats', loadedImages'), selectedHatId')
              ELSE canvas

\* the values draw has closed over in the current render of Editor
DrawClosure ==
    [image |-> image, hats |-> hats, loadedImages |-> loadedImages,
     selectedHatId |-> selectedHatId]

\* a sequence of draw calls made from one closure, applied in order
RECURSIVE ApplyRenders(_, _, _)
ApplyRenders(cv, closure, renders) ==
    IF renders = << >> THEN cv
    ELSE ApplyRenders(Draw(cv, Head(renders), closure.image,
                           Painted(closure.hats, closure.loadedImages),
                           closure.selectedHatId),
                      closure, Tail(renders))

(***************************************************************************)
(* Geometry.                                                               *)
(***************************************************************************)
\* getUiScale is canvas.width / rect.width; the hit radius of a handle is
\* BASE_HANDLE_RADIUS * uiScale * 1.5
HitRadius(cv) == (BASE_HANDLE_RADIUS * cv.width * 3) \div (DisplayWidth * 2)

\* rect.height: the canvas element keeps the aspect ratio of its backing
\* store (w-full h-auto)
RectHeight(cv) == (DisplayWidth * cv.height) \div cv.width

\* getCanvasCoords: client position to backing-canvas position
GetCanvasCoords(cp, cv) ==
    [x |-> (cp[1] * cv.width) \div DisplayWidth,
     y |-> (cp[2] * cv.height) \div RectHeight(cv)]

\* width and height of a placed overlay on the canvas (img.width * scale)
ScaledWidth(hat) == (RasterWidth(hat.src) * hat.scale) \div ScaleUnit
ScaledHeight(hat) == (RasterHeight(hat.src) * hat.scale) \div ScaleUnit

\* rotatePoint of getTransformedCorners, for the local point (px2/2, py2/2)
RotatePoint(hat, px2, py2) ==
    [x |-> hat.x + RDiv(px2 * Cos(hat.rotation) - py2 * Sin(hat.rotation),
                        2 * TrigUnit),
     y |-> hat.y + RDiv(px2 * Sin(hat.rotation) + py2 * Cos(hat.rotation),
                        2 * TrigUnit)]

\* getTransformedCorners, for an overlay whose raster is cached and whose
\* scale is finite
GetTransformedCorners(hat) ==
    LET w == ScaledWidth(hat)
        h == ScaledHeight(hat)
    IN  [tl |-> RotatePoint(hat, -w, -h), tr |-> RotatePoint(hat, w, -h),
         br |-> RotatePoint(hat, w, h),   bl |-> RotatePoint(hat, -w, h)]

\* getTransformedCorners returns null without the raster; with a scale that
\* is Infinity or NaN every corner is NaN or infinite and no circle test
\* succeeds
HasCorners(hat, cache) == hat.src \in cache /\ IsFinite(hat.scale)

\* isPointInCircle: Math.sqrt(dx^2 + dy^2) <= radius, boundary included
IsPointInCircle(px, py, cx, cy, radius) ==
    (px - cx) * (px - cx) + (py - cy) * (py - cy) <= radius * radius

\* the body test of handleMouseDown: the pointer, rotated back into the
\* overlay's local frame, lies within the half extents
IsPointInBody(hat, x, y) ==
    LET dx == x - hat.x
        dy == y - hat.y
        localX == dx * Cos(-hat.rotation) - dy * Sin(-hat.rotation)
        localY == dx * Sin(-hat.rotation) + dy * Cos(-hat.rotation)
        w == ScaledWidth(hat)
        h == ScaledHeight(hat)
    IN  IF hat.scale = NaN THEN FALSE
        ELSE IF hat.scale = Infinity THEN TRUE
        ELSE /\ 2 * localX >= -w * TrigUnit /\ 2 * localX <= w * TrigUnit
             /\ 2 * localY >= -h * TrigUnit /\ 2 * localY <= h * TrigUnit

\* hats.find(h => h.uid === selectedHatId): its index, or 0
FindIndex(hs, uid) ==
    IF \E i \in 1..Len(hs) : hs[i].uid = uid
    THEN CHOOSE i \in 1..Len(hs) :
            /\ hs[i].uid = uid
            /\ \A j \in 1..(i - 1) : hs[j].uid # uid
    ELSE 0

\* a test of the handles in the order delete, scale, rotate, flip
HandleAtScaleFirst(hs, sel, cache, x, y, radius) ==
    LET i == FindIndex(hs, sel)
    IN  IF sel = NoUid \/ i = 0 THEN "none"
        ELSE IF ~ HasCorners(hs[i], cache) THEN "none"
        ELSE LET c == GetTransformedCorners(hs[i])
             IN  IF IsPointInCircle(x, y, c.tl.x, c.tl.y, radius)
                    THEN "delete"
                 ELSE IF IsPointInCircle(x, y, c.br.x, c.br.y, radius)
                    THEN "scale"
                 ELSE IF IsPointInCircle(x, y, c.tr.x, c.tr.y, radius)
                    THEN "rotate"
                 ELSE IF IsPointInCircle(x, y, c.bl.x, c.bl.y, radius)
                    THEN "flip"
                 ELSE "none"

\* the handle of the selection under the pointer, in the order the code
\* tests them: delete (TL), rotate (TR), scale (BR), flip (BL)
HandleAt(hs, sel, cache, x, y, radius) ==
    LET i == FindIndex(hs, sel)
    IN  IF sel = NoUid \/ i = 0 THEN "none"
        ELSE IF ~ HasCorners(hs[i], cache) THEN "none"
        ELSE LET c == GetTransformedCorners(hs[i])
             IN  IF IsPointInCircle(x, y, c.tl.x, c.tl.y, radius)
                    THEN "delete"
                 ELSE IF IsPointInCircle(x, y, c.tr.x, c.tr.y, radius)
                    THEN "rotate"
                 ELSE IF IsPointInCircle(x, y, c.br.x, c.br.y, radius)
                    THEN "scale"
                 ELSE IF IsPointInCircle(x, y, c.bl.x, c.bl.y, radius)
                    THEN "flip"
                 ELSE "none"

\* a loop over hats from the first to the last
BottommostHit(hs, cache, x, y) ==
    LET hit(i) == hs[i].src \in cache /\ IsPointInBody(hs[i], x, y)
    IN  IF \E i \in 1..Len(hs) : hit(i)
        THEN CHOOSE i \in 1..Len(hs) :
                /\ hit(i)
                /\ \A j \in 1..(i - 1) : ~ hit(j)
        ELSE 0

\* the loop of handleMouseDown over hats from the last to the first: the
\* index of the topmost overlay whose body holds the pointer, or 0
TopmostHit(hs, cache, x, y) ==
    LET hit(i) == hs[i].src \in cache /\ IsPointInBody(hs[i], x, y)
    IN  IF \E i \in 1..Len(hs) : hit(i)
        THEN CHOOSE i \in 1..Len(hs) :
                /\ hit(i)
                /\ \A j \in (i + 1)..Len(hs) : ~ hit(j)
        ELSE 0

\* a filter on the definition of the overlay instead of the instance
FilterOutDefinition(hs, uid) ==
    SelectSeq(hs, LAMBDA h : \A i \in 1..Len(hs) :
                                hs[i].uid = uid => h.id # hs[i].id)

\* prev.filter(h => h.uid !== uid)
FilterOut(hs, uid) == SelectSeq(hs, LAMBDA h : h.uid # uid)

\* the baseline captured by handleMouseDown
Baseline(x, y, hat) ==
    [mouseX |-> x, mouseY |-> y,
     startRotation |-> hat.rotation, startScale |-> hat.scale,
     startX |-> hat.x, startY |-> hat.y]

(***************************************************************************)
(* Overlay placement.                                                      *)
(***************************************************************************)
RECURSIVE Digits(_)
\* Number.prototype.toString of a non-negative integer, as decimal digits
Digits(n) == IF n < 10 THEN << n >> ELSE Digits(n \div 10) \o << n % 10 >>

\* Math.random().toString().slice(2): the digits after "0." of the k-th
\* value the generator returns.  The generator is taken to return a
\* different value at every call of a session.
MathRandomDigits(k) == Digits(k)

\* a uid made of the time alone
TimeOnlyUid(t, k) == Digits(SessionStartMs + t)

\* newUid = Date.now().toString() + Math.random().toString().slice(2)
NewUid(t, k) == Digits(SessionStartMs + t) \o MathRandomDigits(k)

\* the body of the .then callback of the add effect: the new instance, for
\* the closure's background img and hats.length > 0 (stacked), and the
\* two jitter draws
NewHat(def, img, stacked, uid, jx, jy) ==
    LET dims == GetRenderDimensions(img)
        targetWidth35 == dims.width * 35
        initialScale ==
            IF img = NoImage THEN ScaleUnit
            ELSE (targetWidth35 * ScaleUnit)
                     \div (100 * RasterWidth(def.src))
        initialX == IF img = NoImage THEN DEFAULT_X ELSE dims.width \div 2
        initialY == IF img = NoImage THEN DEFAULT_Y ELSE dims.height \div 3
        jitter == img # NoImage /\ stacked
    IN  [id |-> def.id, src |-> def.src, uid |-> uid,
         x |-> IF jitter THEN initialX + jx ELSE initialX,
         y |-> IF jitter THEN initialY + jy ELSE initialY,
         scale |-> initialScale, rotation |-> 0, isMirrored |-> FALSE]

\* the closure of one run of the add effect whose loadHatImage started a
\* decode: the request, and the image and hats of that render
LoadClosure(def, img, hs, req) ==
    [hat |-> def, image |-> img, stacked |-> hs # << >>, req |-> req]

\* The add effect, useEffect(..., [hatToAdd, image, hats, onHatAdded, ...]),
\* after a render in which one of its dependencies changed: with a request
\* pending it calls loadHatImage, which starts a decode unless the src is
\* in the loadedImages of that render.  pl is the bag of decodes in flight
\* left by the handler.  (A pending request whose src is cached exists only
\* inside ClickHat, which completes it at once.)
AddEffect(changed, pl) ==
    IF changed /\ hatToAdd' # NoHat /\ hatToAdd'.src \notin loadedImages'
    THEN /\ BagCardinality(pl) < MaxPending
         /\ decodes[hatToAdd'.src] < MaxDecodes
         /\ pendingLoads' =
                pl (+) SetToBag({LoadClosure(hatToAdd', image', hats', curReq')})
         /\ decodes' = [decodes EXCEPT ![hatToAdd'.src] = @ + 1]
    ELSE /\ pendingLoads' = pl
         /\ decodes' = decodes

\* setHats(prev => [...prev, newHat]); setSelectedHatId(newUid);
\* onHatAdded(), for the request req
AppendHat(newHat, req) ==
    /\ hats' = Append(hats, newHat)
    /\ selectedHatId' = newHat.uid
    /\ hatToAdd' = NoHat
    /\ appended' = [appended EXCEPT ![req] = @ + 1]

(***************************************************************************)
(* The greeting service (services/geminiService) and its caller.           *)
(***************************************************************************)
\* the three fixed texts of the service, in English: the one returned
\* without a key, the one that stands in for an empty response (it is also
\* the text of the mock service), and the one returned from the catch block
NO_KEY_TEXT == "Please configure API_KEY to generate a greeting!"
EMPTY_TEXT == "Merry Christmas, joy and peace!"
ERROR_TEXT == "Merry Christmas, may you have a wonderful year!"

\* process.env.API_KEY || '': unset, or a key
ApiKeys == { "", "key" }
\* the two services of the repository: the one that calls the API and the
\* mock that waits 600 ms
Services == { "gemini", "mock" }

\* response.text is a string or undefined: a sequence of at most one string
Undefined == << >>
ResponseTexts ==
    { Undefined, << "" >>, << " " >>, << "Merry Christmas!" >>,
      << "Ho ho ho" >>, << "Joy to the world" >> }

\* ai.models.generateContent(...) rejects, or resolves with a response
ApiOutcomes ==
    { [kind |-> "rejects", text |-> Undefined] }
        \cup { [kind |-> "resolves", text |-> t] : t \in ResponseTexts }
NoOutcome == [kind |-> "none", text |-> Undefined]

\* how a promise settles
Resolved(v) == [settled |-> "resolved", value |-> v]
Rejected == [settled |-> "rejected", value |-> ""]
Unsettled == [settled |-> "pending", value |-> ""]

\* a text that || replaces
Falsy(t) == t = Undefined \/ t = << "" >>

\* a service without try / catch and without the || fallback
GreetingUnguarded(outcome) ==
    IF outcome.kind = "rejects" THEN Rejected
    ELSE IF outcome.text = Undefined THEN Resolved("")
    ELSE Resolved(outcome.text[1])

\* generateChristmasGreeting of the API service from its await on: the
\* try block returns response.text || EMPTY_TEXT, the catch block
\* ERROR_TEXT
GreetingAfterCall(outcome) ==
    IF outcome.kind = "rejects" THEN Resolved(ERROR_TEXT)
    ELSE IF Falsy(outcome.text) THEN Resolved(EMPTY_TEXT)
    ELSE Resolved(outcome.text[1])

NoCall == [stage |-> "none", outcome |-> NoOutcome, result |-> Unsettled]

\* generateChristmasGreeting up to its first await: without a key the API
\* service returns at once; the mock awaits its timer
GenerateChristmasGreeting(svc, key) ==
    IF svc = "mock"
    THEN [stage |-> "timer", outcome |-> NoOutcome, result |-> Unsettled]
    ELSE IF key = ""
    THEN [stage |-> "settled", outcome |-> NoOutcome,
          result |-> Resolved(NO_KEY_TEXT)]
    ELSE [stage |-> "api", outcome |-> NoOutcome, result |-> Unsettled]

(***************************************************************************)
(* HatSelector with the runtime probe of ./hats/1.png, ./hats/2.png, ...   *)
(***************************************************************************)
\* the safety limit of the probe
maxIndex == 50

\* setLocalHats is given an updater function, prev => [...prev, {...}].
\* React runs an updater when it is dispatched (if no other update is
\* queued) or else during the next render, after the handler has returned.
UpdaterTimings == { "dispatch", "render" }

\* the definition the updater builds for the load of ./hats/<k>.png when
\* it finds currentIndex to be idx: { id: `local-${currentIndex}`,
\* name: `... ${currentIndex}`, src }, a number standing for each string
LocalHat(idx, k) == [id |-> idx, name |-> idx, src |-> k]

\* loadNextImage: whether it issues a load, for the index idx
LoadNextImage(act, idx) == act /\ idx <= maxIndex

(***************************************************************************)
(* Initial state: the editor after its first render and effects.           *)
(***************************************************************************)
EditorInit ==
    /\ image = NoImage
    /\ hats = << >>
    /\ selectedHatId = NoUid
    /\ loadedImages = { }
    /\ mode = "NONE"
    /\ startInteraction =
           [mouseX |-> 0, mouseY |-> 0, startRotation |-> 0,
            startScale |-> ScaleUnit, startX |-> 0, startY |-> 0]
    /\ hatToAdd = NoHat
    /\ isCopied = FALSE
    /\ canvas = Draw(NewCanvas, TRUE, NoImage, << >>, NoUid)
    /\ pendingLoads = EmptyBag
    /\ pendingFiles = { }
    /\ copies = EmptyBag
    /\ now = 0
    /\ randomDraws = 0
    /\ curReq = 0
    /\ nRequests = 0
    /\ appended = [r \in 1..MaxRequests |-> 0]
    /\ decodes = [s \in { d.src : d \in HatDefs } |-> 0]
    /\ lastExport = [kind |-> "none", renders |-> << >>, result |-> FALSE]
    /\ nMoves = 0
    /\ lastDecode = [rank |-> 0, outlasted |-> { }]

\* GreetingGenerator after its first render
GreetingIdle ==
    /\ greeting = ""
    /\ loading = FALSE
    /\ copied = FALSE
    /\ greetingCall = NoCall

\* HatSelector after its first render and its effect: the list is empty
\* and the load of ./hats/1.png is in flight
ProbeStarted ==
    /\ localHats = << >>
    /\ active = TRUE
    /\ currentIndex = 1
    /\ probing = TRUE
    /\ nLoads = 1

\* the build of the editor sessions: the mock service, no key
Init ==
    /\ EditorInit
    /\ apiKey = ""
    /\ service = "mock"
    /\ GreetingIdle
    /\ updaterRuns = "render"
    /\ ProbeStarted

\* a build with either service, with or without a key
InitGreeting ==
    /\ EditorInit
    /\ apiKey \in ApiKeys
    /\ service \in Services
    /\ GreetingIdle
    /\ updaterRuns = "render"
    /\ ProbeStarted

\* a build in which React runs updaters at either time
InitProbe ==
    /\ EditorInit
    /\ apiKey = ""
    /\ service = "mock"
    /\ GreetingIdle
    /\ updaterRuns \in UpdaterTimings
    /\ ProbeStarted

(***************************************************************************)
(* Overlay-add requests and asset loads.                                   *)
(***************************************************************************)
\* App: the selector calls setHatToAdd(h).  Setting the state to the object
\* it already holds changes nothing.
ClickHat(h, dt, j) ==
    /\ h # hatToAdd
    /\ nRequests < MaxRequests
    /\ nRequests' = nRequests + 1
    /\ curReq' = nRequests + 1
    /\ UNCHANGED << image, mode, startInteraction, isCopied, fileVars, greetingVars, selectorVars,
                    exportVars, nMoves >>
    /\ IF h.src \in loadedImages
       THEN \* loadHatImage resolves from the cache: the instance is
            \* appended in the same turn
            /\ now + dt <= MaxClock
            /\ now' = now + dt
            /\ randomDraws' = randomDraws + 1
            /\ AppendHat(NewHat(h, image, hats # << >>,
                                NewUid(now', randomDraws'), j[1], j[2]),
                         nRequests + 1)
            /\ UNCHANGED << loadedImages, loadVars >>
            /\ Redraw(TRUE)
       ELSE \* the clock and the jitter are not read in this turn
            /\ hatToAdd' = h
            /\ UNCHANGED << hats, selectedHatId, loadedImages, appended,
                            uidVars >>
            /\ AddEffect(TRUE, pendingLoads)
            /\ Redraw(FALSE)

\* an onload that resolves without caching the raster
CacheNothing(cache, src) == cache

\* setLoadedImages(prev => ({ ...prev, [src]: img }))
CacheImage(cache, src) == cache \cup { src }

\* img.onload of a decode started by loadHatImage, then the .then callback
\* of the effect run that started it
HatLoadDone(l, dt, j) ==
    /\ BagIn(l, pendingLoads)
    /\ now + dt <= MaxClock
    /\ now' = now + dt
    /\ randomDraws' = randomDraws + 1
    /\ loadedImages' = CacheImage(loadedImages, l.hat.src)
    /\ AppendHat(NewHat(l.hat, l.image, l.stacked,
                        NewUid(now', randomDraws'), j[1], j[2]), l.req)
    /\ UNCHANGED << image, mode, startInteraction, isCopied, curReq,
                    nRequests, fileVars, greetingVars, selectorVars, exportVars,
                    nMoves >>
    /\ AddEffect(TRUE, pendingLoads (-) SetToBag({l}))
    /\ Redraw(TRUE)

\* an onerror that gives the request up: it calls onHatAdded
HatLoadFailClearing(l) ==
    /\ BagIn(l, pendingLoads)
    /\ pendingLoads' = pendingLoads (-) SetToBag({l})
    /\ hatToAdd' = NoHat
    /\ UNCHANGED << sceneVars, gestureVars, isCopied, curReq, nRequests,
                    canvas, decodes, fileVars, greetingVars, selectorVars, exportVars,
                    uidVars, appended, nMoves >>

\* img.onerror: the promise rejects and nothing handles it
HatLoadFail(l) ==
    /\ BagIn(l, pendingLoads)
    /\ pendingLoads' = pendingLoads (-) SetToBag({l})
    /\ UNCHANGED << sceneVars, gestureVars, appVars, canvas, decodes,
                    fileVars, greetingVars, selectorVars, exportVars, uidVars, appended,
                    nMoves >>

(***************************************************************************)
(* Background files.                                                       *)
(***************************************************************************)
\* a file on its way through FileReader and Image: the file, the number of
\* decodes that were in flight when it was submitted, and the files whose
\* decodes have completed since
Submitted(f, inFlight) ==
    [name |-> f.name, major |-> f.major, w |-> f.w, h |-> f.h,
     rank |-> inFlight, outlasted |-> { }]

\* the decodes left in flight when the decode d completes
Outlasting(d) ==
    { [p EXCEPT !.outlasted = @ \cup { d.name }] : p \in pendingFiles \ { d } }

\* a processFile without the test of file.type
ProcessFileAnyType(f, maxDecoding) ==
    /\ Cardinality(pendingFiles) < maxDecoding
    /\ pendingFiles' =
           pendingFiles \cup { Submitted(f, Cardinality(pendingFiles)) }
    /\ UNCHANGED << sceneVars, gestureVars, appVars, canvas, loadVars,
                    exportVars, uidVars, appended, nMoves, lastDecode,
                    greetingVars, selectorVars >>

\* processFile (file picker, drop, paste, loadFile): a file whose type does
\* not start with "image/" is ignored, any other is read and decoded;
\* maxDecoding bounds the number of decodes in flight
ProcessFile(f, maxDecoding) ==
    /\ Cardinality(pendingFiles) < maxDecoding
    /\ pendingFiles' =
           IF f.major = "image"
           THEN pendingFiles \cup { Submitted(f, Cardinality(pendingFiles)) }
           ELSE pendingFiles
    /\ UNCHANGED << sceneVars, gestureVars, appVars, canvas, loadVars,
                    exportVars, uidVars, appended, nMoves, lastDecode,
                    greetingVars, selectorVars >>

\* an onload that keeps the scene of the previous background
FileDecodedKeepingScene(d) ==
    /\ d \in pendingFiles
    /\ pendingFiles' = Outlasting(d)
    /\ lastDecode' = [rank |-> d.rank, outlasted |-> d.outlasted]
    /\ image' = [name |-> d.name, w |-> d.w, h |-> d.h]
    /\ UNCHANGED << hats, selectedHatId, loadedImages, gestureVars, appVars,
                    exportVars, uidVars, appended, nMoves, greetingVars, selectorVars >>
    /\ AddEffect(TRUE, pendingLoads)
    /\ Redraw(TRUE)

\* an onload that drops the image of a decode that another one overtook
FileDecodedFirstWins(d) ==
    /\ d \in pendingFiles
    /\ pendingFiles' = Outlasting(d)
    /\ lastDecode' = [rank |-> d.rank, outlasted |-> d.outlasted]
    /\ image' = IF d.outlasted = { }
                THEN [name |-> d.name, w |-> d.w, h |-> d.h]
                ELSE image
    /\ hats' = << >>
    /\ selectedHatId' = NoUid
    /\ UNCHANGED << loadedImages, gestureVars, appVars, exportVars, uidVars,
                    appended, nMoves, greetingVars, selectorVars >>
    /\ AddEffect(TRUE, pendingLoads)
    /\ Redraw(TRUE)

\* img.onload inside processFile
FileDecoded(d) ==
    /\ d \in pendingFiles
    /\ pendingFiles' = Outlasting(d)
    /\ lastDecode' = [rank |-> d.rank, outlasted |-> d.outlasted]
    /\ image' = [name |-> d.name, w |-> d.w, h |-> d.h]
    /\ hats' = << >>
    /\ selectedHatId' = NoUid
    /\ UNCHANGED << loadedImages, gestureVars, appVars, exportVars, uidVars,
                    appended, nMoves, greetingVars, selectorVars >>
    /\ AddEffect(TRUE, pendingLoads)
    /\ Redraw(TRUE)

\* reader.onerror / img.onerror inside processFile: no handler is set
FileDecodeFail(d) ==
    /\ d \in pendingFiles
    /\ pendingFiles' = pendingFiles \ { d }
    /\ UNCHANGED << sceneVars, gestureVars, appVars, canvas, loadVars,
                    exportVars, uidVars, appended, nMoves, lastDecode,
                    greetingVars, selectorVars >>

(***************************************************************************)
(* Pointer events.                                                         *)
(***************************************************************************)
\* a deleteSelectedHat that forgets setSelectedHatId(null)
DeleteKeepingSelection(hs, sel, m) ==
    [hats |-> FilterOut(hs, sel), selectedHatId |-> sel, mode |-> "NONE"]

\* deleteSelectedHat, as a function of the state it reads
DeleteSelectedHat(hs, sel, m) ==
    IF sel # NoUid
    THEN [hats |-> FilterOut(hs, sel), selectedHatId |-> NoUid,
          mode |-> "NONE"]
    ELSE [hats |-> hs, selectedHatId |-> sel, mode |-> m]

\* prev.map(h => h.uid === selectedHatId ? {...h, isMirrored: !h.isMirrored} : h)
ToggleMirror(hs, sel) ==
    [i \in 1..Len(hs) |->
        IF hs[i].uid = sel
        THEN [hs[i] EXCEPT !.isMirrored = ~ hs[i].isMirrored]
        ELSE hs[i]]

\* a body press that selects the instance where it stands in hats
SelectInPlace(hs, hat) == hs

\* bring to front: prev.filter(h => h.uid !== hat.uid) followed by hat
BringToFront(hs, hat) == Append(FilterOut(hs, hat.uid), hat)

\* handleMouseDown (mousedown and touchstart)
HandleMouseDown(cp) ==
    /\ image # NoImage
    /\ LET p == GetCanvasCoords(cp, canvas)
           handle == HandleAt(hats, selectedHatId, loadedImages, p.x, p.y,
                              HitRadius(canvas))
           i == FindIndex(hats, selectedHatId)
           t == TopmostHit(hats, loadedImages, p.x, p.y)
           del == DeleteSelectedHat(hats, selectedHatId, mode)
       IN  CASE handle = "delete" ->
                  /\ hats' = del.hats
                  /\ selectedHatId' = del.selectedHatId
                  /\ mode' = del.mode
                  /\ UNCHANGED startInteraction
             [] handle = "rotate" ->
                  /\ mode' = "ROTATE"
                  /\ startInteraction' = Baseline(p.x, p.y, hats[i])
                  /\ UNCHANGED << hats, selectedHatId >>
             [] handle = "scale" ->
                  /\ mode' = "SCALE"
                  /\ startInteraction' = Baseline(p.x, p.y, hats[i])
                  /\ UNCHANGED << hats, selectedHatId >>
             [] handle = "flip" ->
                  /\ hats' = ToggleMirror(hats, selectedHatId)
                  /\ UNCHANGED << selectedHatId, mode, startInteraction >>
             [] handle = "none" /\ t # 0 ->
                  /\ selectedHatId' = hats[t].uid
                  /\ hats' = BringToFront(hats, hats[t])
                  /\ mode' = "DRAG"
                  /\ startInteraction' = Baseline(p.x, p.y, hats[t])
             [] handle = "none" /\ t = 0 ->
                  /\ selectedHatId' = NoUid
                  /\ UNCHANGED << hats, mode, startInteraction >>
    /\ UNCHANGED << image, loadedImages, appVars, fileVars, greetingVars, selectorVars, exportVars,
                    uidVars, appended, nMoves >>
    \* setHats was called with a new array, or the selection changed
    /\ LET p == GetCanvasCoords(cp, canvas)
           handle == HandleAt(hats, selectedHatId, loadedImages, p.x, p.y,
                              HitRadius(canvas))
           t == TopmostHit(hats, loadedImages, p.x, p.y)
           hatsSet == handle \in { "delete", "flip" } \/ (handle = "none" /\ t # 0)
       IN  /\ AddEffect(hatsSet, pendingLoads)
           /\ Redraw(hatsSet \/ selectedHatId' # selectedHatId)

\* the scale of handleMouseMove in SCALE mode:
\* Math.max(0.1, startScale * (dist / startDist))
NewScale(startScale, dist, startDist) ==
    IF startScale = NaN THEN NaN
    ELSE IF startDist = 0
    THEN \* dist / 0 is NaN for dist = 0 and Infinity otherwise, and
         \* Math.max returns NaN when an argument is NaN
         IF dist = 0 \/ startScale = 0 THEN NaN ELSE Infinity
    ELSE IF startScale = Infinity
    THEN IF dist = 0 THEN NaN ELSE Infinity
    ELSE LET newScale == (startScale * dist) \div startDist
         IN  IF newScale > MIN_SCALE THEN newScale ELSE MIN_SCALE

\* a drag that adds the pointer's way from the baseline to the position the
\* overlay has now, instead of the position of the baseline
MoveHatFromCurrent(hat, m, si, x, y) ==
    IF m = "DRAG"
    THEN [hat EXCEPT !.x = hat.x + (x - si.mouseX),
                     !.y = hat.y + (y - si.mouseY)]
    ELSE IF m = "ROTATE"
    THEN LET angle == Atan2Deg(y - hat.y, x - hat.x)
             startAngle == Atan2Deg(si.mouseY - hat.y, si.mouseX - hat.x)
         IN  [hat EXCEPT !.rotation =
                             FAdd(si.startRotation, FSub(angle, startAngle))]
    ELSE IF m = "SCALE"
    THEN LET dist ==
                 Sqrt((x - hat.x) * (x - hat.x) + (y - hat.y) * (y - hat.y))
             startDist ==
                 Sqrt((si.mouseX - hat.x) * (si.mouseX - hat.x)
                      + (si.mouseY - hat.y) * (si.mouseY - hat.y))
         IN  [hat EXCEPT !.scale = NewScale(si.startScale, dist, startDist)]
    ELSE hat

\* the callback of prev.map in handleMouseMove, for the selected overlay
MoveHat(hat, m, si, x, y) ==
    IF m = "DRAG"
    THEN [hat EXCEPT !.x = si.startX + (x - si.mouseX),
                     !.y = si.startY + (y - si.mouseY)]
    ELSE IF m = "ROTATE"
    THEN LET angle == Atan2Deg(y - hat.y, x - hat.x)
             startAngle == Atan2Deg(si.mouseY - hat.y, si.mouseX - hat.x)
         IN  [hat EXCEPT !.rotation =
                             FAdd(si.startRotation, FSub(angle, startAngle))]
    ELSE IF m = "SCALE"
    THEN LET dist ==
                 Sqrt((x - hat.x) * (x - hat.x) + (y - hat.y) * (y - hat.y))
             startDist ==
                 Sqrt((si.mouseX - hat.x) * (si.mouseX - hat.x)
                      + (si.mouseY - hat.y) * (si.mouseY - hat.y))
         IN  [hat EXCEPT !.scale = NewScale(si.startScale, dist, startDist)]
    ELSE hat

\* a map callback without the test of the uid: every overlay is moved
HandleMouseMoveAll(cp, maxMoves) ==
    /\ mode # "NONE"
    /\ selectedHatId # NoUid
    /\ nMoves < maxMoves
    /\ nMoves' = nMoves + 1
    /\ LET p == GetCanvasCoords(cp, canvas)
       IN  hats' = [i \in 1..Len(hats) |->
                       MoveHat(hats[i], mode, startInteraction, p.x, p.y)]
    /\ UNCHANGED << image, selectedHatId, loadedImages, gestureVars, appVars,
                    fileVars, greetingVars, selectorVars, exportVars, uidVars, appended >>
    /\ AddEffect(TRUE, pendingLoads)
    /\ Redraw(TRUE)

\* handleMouseMove (mousemove and touchmove); maxMoves bounds the number
\* of moves explored
HandleMouseMove(cp, maxMoves) ==
    /\ mode # "NONE"
    /\ selectedHatId # NoUid
    /\ nMoves < maxMoves
    /\ nMoves' = nMoves + 1
    /\ LET p == GetCanvasCoords(cp, canvas)
       IN  hats' = [i \in 1..Len(hats) |->
                       IF hats[i].uid # selectedHatId THEN hats[i]
                       ELSE MoveHat(hats[i], mode, startInteraction, p.x, p.y)]
    /\ UNCHANGED << image, selectedHatId, loadedImages, gestureVars, appVars,
                    fileVars, greetingVars, selectorVars, exportVars, uidVars, appended >>
    /\ AddEffect(TRUE, pendingLoads)
    /\ Redraw(TRUE)

\* a pointer-up that puts the selection back on the baseline
MouseUpReverting ==
    /\ mode' = "NONE"
    /\ hats' = [i \in 1..Len(hats) |->
                    IF hats[i].uid # selectedHatId THEN hats[i]
                    ELSE [hats[i] EXCEPT !.x = startInteraction.startX,
                                         !.y = startInteraction.startY]]
    /\ UNCHANGED << image, selectedHatId, loadedImages, startInteraction,
                    appVars, canvas, loadVars, fileVars, greetingVars, selectorVars, exportVars,
                    uidVars, appended, nMoves >>

\* handleMouseUp (mouseup, mouseleave and touchend)
HandleMouseUp ==
    /\ mode' = "NONE"
    /\ UNCHANGED << sceneVars, startInteraction, appVars, canvas, loadVars,
                    fileVars, greetingVars, selectorVars, exportVars, uidVars, appended,
                    nMoves >>

(***************************************************************************)
(* Export.                                                                 *)
(***************************************************************************)
\* the draw calls of handleDownload, in order
DownloadRenders == << FALSE, TRUE >>
\* the draw call of handleCopy before the blob is requested
CopyFirstRenders == << FALSE >>
\* the draw call of handleCopy after clipboard.write resolved
CopySuccessRenders == << TRUE >>
\* a catch block that does not draw
NoRenders == << >>

\* the draw call of handleCopy in its catch block
CopyFailureRenders == << TRUE >>

\* handleDownload: it runs in one turn
HandleDownload ==
    /\ image # NoImage
    /\ canvas' = ApplyRenders(canvas, DrawClosure, DownloadRenders)
    /\ lastExport' = [kind |-> "download", renders |-> DownloadRenders,
                      result |-> TRUE]
    /\ UNCHANGED << sceneVars, gestureVars, appVars, loadVars, fileVars, greetingVars, selectorVars,
                    copies, uidVars, appended, nMoves >>

\* handleCopy up to its first await.  Without a background it returns
\* false at once.
CopyStart ==
    /\ BagCardinality(copies) < MaxCopies
    /\ IF image = NoImage
       THEN /\ lastExport' = [kind |-> "copy", renders |-> << >>,
                              result |-> FALSE]
            /\ UNCHANGED << canvas, copies >>
       ELSE /\ canvas' = ApplyRenders(canvas, DrawClosure, CopyFirstRenders)
            /\ copies' = copies (+) SetToBag({[stage |-> "blob",
                                               draw |-> DrawClosure,
                                               renders |-> CopyFirstRenders]})
            /\ UNCHANGED lastExport
    /\ UNCHANGED << sceneVars, gestureVars, appVars, loadVars, fileVars, greetingVars, selectorVars, uidVars, appended, nMoves >>

\* canvas.toBlob called back with a blob: handleCopy goes on to
\* navigator.clipboard.write
CopyBlobReady(c) ==
    /\ BagIn(c, copies)
    /\ c.stage = "blob"
    /\ copies' = (copies (-) SetToBag({c}))
                     (+) SetToBag({[c EXCEPT !.stage = "clipboard"]})
    /\ UNCHANGED << sceneVars, gestureVars, appVars, canvas, loadVars,
                    fileVars, greetingVars, selectorVars, lastExport, uidVars, appended, nMoves >>

\* the end of handleCopy with the draw calls `renders` of its closure and
\* the value it returns; App.handleCopy sets isCopied on true
CopyEnd(c, renders, result) ==
    /\ copies' = copies (-) SetToBag({c})
    /\ canvas' = ApplyRenders(canvas, c.draw, renders)
    /\ lastExport' = [kind |-> "copy", renders |-> c.renders \o renders,
                      result |-> result]
    /\ isCopied' = (isCopied \/ result)
    /\ UNCHANGED << sceneVars, gestureVars, hatToAdd, curReq, nRequests,
                    fileVars, greetingVars, selectorVars, uidVars,
                    appended, nMoves >>
    \* App re-renders when isCopied changes and hands Editor a new
    \* onHatAdded, a dependency of the add effect
    /\ AddEffect(isCopied' # isCopied, pendingLoads)

\* clipboard.write resolved
CopySucceeds(c) ==
    /\ BagIn(c, copies)
    /\ c.stage = "clipboard"
    /\ CopyEnd(c, CopySuccessRenders, TRUE)

\* a catch block that returns true
CopyFailsReportingSuccess(c) ==
    /\ BagIn(c, copies)
    /\ CopyEnd(c, CopyFailureRenders, TRUE)

\* toBlob gave null, or clipboard.write rejected: the catch block
CopyFails(c) ==
    /\ BagIn(c, copies)
    /\ CopyEnd(c, CopyFailureRenders, FALSE)

\* App: setTimeout(() => setIsCopied(false), 2000)
CopiedTimeout ==
    /\ isCopied
    /\ isCopied' = FALSE
    /\ UNCHANGED << sceneVars, gestureVars, hatToAdd, curReq, nRequests,
                    canvas, fileVars, greetingVars, selectorVars, exportVars, uidVars,
                    appended, nMoves >>
    /\ AddEffect(TRUE, pendingLoads)

(***************************************************************************)
(* GreetingGenerator.                                                      *)
(***************************************************************************)
editorVars ==
    << sceneVars, gestureVars, appVars, canvas, loadVars, fileVars,
       exportVars, uidVars, appended, nMoves >>

\* handleGenerate up to its await; the button is disabled while loading
HandleGenerate ==
    /\ ~ loading
    /\ greetingCall = NoCall
    /\ loading' = TRUE
    /\ greetingCall' = GenerateChristmasGreeting(service, apiKey)
    /\ UNCHANGED << editorVars, selectorVars, apiKey, service, greeting, copied >>

\* the API call settles and generateChristmasGreeting runs to its return
ApiSettles(outcome) ==
    /\ greetingCall.stage = "api"
    /\ greetingCall' = [stage |-> "settled", outcome |-> outcome,
                        result |-> GreetingAfterCall(outcome)]
    /\ UNCHANGED << editorVars, selectorVars, apiKey, service, greeting, loading, copied >>

\* the timer of the mock service fires and it returns its text
TimerFires ==
    /\ greetingCall.stage = "timer"
    /\ greetingCall' = [stage |-> "settled", outcome |-> NoOutcome,
                        result |-> Resolved(EMPTY_TEXT)]
    /\ UNCHANGED << editorVars, selectorVars, apiKey, service, greeting, loading, copied >>

\* handleGenerate after its await: with the text it sets greeting and
\* clears loading and copied; a rejection would end it before that
GreetingArrives ==
    /\ greetingCall.stage = "settled"
    /\ greetingCall' = NoCall
    /\ IF greetingCall.result.settled = "resolved"
       THEN /\ greeting' = greetingCall.result.value
            /\ loading' = FALSE
            /\ copied' = FALSE
       ELSE UNCHANGED << greeting, loading, copied >>
    /\ UNCHANGED << editorVars, selectorVars, apiKey, service >>

\* GreetingGenerator.handleCopy
GreetingHandleCopy ==
    /\ greeting # ""
    /\ copied' = TRUE
    /\ UNCHANGED << editorVars, selectorVars, apiKey, service, greeting, loading,
                    greetingCall >>

\* GreetingGenerator: setTimeout(() => setCopied(false), 2000)
GreetingCopiedTimeout ==
    /\ copied
    /\ copied' = FALSE
    /\ UNCHANGED << editorVars, selectorVars, apiKey, service, greeting, loading,
                    greetingCall >>

NextGreeting ==
    \/ HandleGenerate
    \/ \E o \in ApiOutcomes : ApiSettles(o)
    \/ TimerFires
    \/ GreetingArrives
    \/ GreetingHandleCopy
    \/ GreetingCopiedTimeout

SpecGreeting == InitGreeting /\ [][NextGreeting]_vars

(***************************************************************************)
(* The probe of HatSelector.                                               *)
(***************************************************************************)
\* img.onload of the probe: after the cleanup it returns; else it calls
\* setLocalHats with the updater, increments currentIndex and calls
\* loadNextImage.  The updater reads currentIndex when it runs; src was
\* built when the load was issued.
ProbeLoaded ==
    /\ probing
    /\ IF ~ active
       THEN /\ probing' = FALSE
            /\ UNCHANGED << localHats, currentIndex, nLoads >>
       ELSE /\ localHats' =
                   Append(localHats,
                          LocalHat(IF updaterRuns = "dispatch"
                                   THEN currentIndex ELSE currentIndex + 1,
                                   currentIndex))
            /\ currentIndex' = currentIndex + 1
            /\ probing' = LoadNextImage(active, currentIndex + 1)
            /\ nLoads' = IF LoadNextImage(active, currentIndex + 1)
                         THEN nLoads + 1 ELSE nLoads
    /\ UNCHANGED << editorVars, greetingVars, active, updaterRuns >>

\* img.onerror of the probe: an empty handler
ProbeFailed ==
    /\ probing
    /\ probing' = FALSE
    /\ UNCHANGED << editorVars, greetingVars, localHats, active, currentIndex,
                    updaterRuns, nLoads >>

\* the cleanup of the probing effect, when HatSelector unmounts
SelectorUnmount ==
    /\ active
    /\ active' = FALSE
    /\ UNCHANGED << editorVars, greetingVars, localHats, currentIndex, probing,
                    updaterRuns, nLoads >>

NextProbe ==
    \/ ProbeLoaded
    \/ ProbeFailed
    \/ SelectorUnmount

SpecProbe == InitProbe /\ [][NextProbe]_vars

(***************************************************************************)
(* The editor.                                                             *)
(***************************************************************************)
\* Positions of the pointer in the client rectangle (clientX - rect.left,
\* clientY - rect.top).  Over a 2048 x 1536 canvas shown 1024 wide, a
\* freshly placed overlay has its centre at <<512, 256>> and its corners
\* at <<333, 77>>, <<691, 77>>, <<691, 435>> and <<333, 435>>.
\* A whole session keeps the pointer on the top-left corner: a press there
\* selects the overlay and starts a drag, and deletes it once selected.
SessionPoints == { <<333, 77>> }
SessionHats == { h \in HatDefs : h.id = "hat-1" }
AddFiles == { f \in Files : f.name # "b.jpg" }

Next ==
    \/ \E h \in SessionHats : ClickHat(h, 0, << 19, 7 >>)
    \/ \E l \in BagToSet(pendingLoads) : HatLoadDone(l, 0, << 19, 7 >>)
    \/ \E l \in BagToSet(pendingLoads) : HatLoadFail(l)
    \/ \E f \in AddFiles : ProcessFile(f, MaxDecoding)
    \/ \E d \in pendingFiles : FileDecoded(d)
    \/ \E d \in pendingFiles : FileDecodeFail(d)
    \/ \E cp \in SessionPoints : HandleMouseDown(cp)
    \/ \E cp \in SessionPoints : HandleMouseMove(cp, SessionMoves)
    \/ HandleMouseUp
    \/ HandleDownload
    \/ CopyStart
    \/ \E c \in BagToSet(copies) : CopyBlobReady(c)
    \/ \E c \in BagToSet(copies) : CopySucceeds(c)
    \/ \E c \in BagToSet(copies) : CopyFails(c)
    \/ CopiedTimeout

Spec == Init /\ [][Next]_vars

(***************************************************************************)
(* Placement sessions: overlay-add requests, asset loads and background    *)
(* loads, with the pointer events that re-run the add effect (a press on   *)
(* a body reorders hats, a press elsewhere does not).                      *)
(***************************************************************************)
AddPoints == { <<512, 256>>, <<50, 50>> }

NextAdd ==
    \/ \E h \in HatDefs, dt \in ClockSteps, j \in Jitters : ClickHat(h, dt, j)
    \/ \E l \in BagToSet(pendingLoads), dt \in ClockSteps, j \in Jitters :
           HatLoadDone(l, dt, j)
    \/ \E l \in BagToSet(pendingLoads) : HatLoadFail(l)
    \/ \E f \in AddFiles : ProcessFile(f, MaxDecoding)
    \/ \E d \in pendingFiles : FileDecoded(d)
    \/ \E d \in pendingFiles : FileDecodeFail(d)
    \/ \E cp \in AddPoints : HandleMouseDown(cp)
    \/ HandleMouseUp

SpecAdd == Init /\ [][NextAdd]_vars


(***************************************************************************)
(* Gesture sessions: overlays over one background, moved with the         *)
(* pointer.  The points are the centre and the top-left corner of a        *)
(* freshly placed overlay.                                                 *)
(***************************************************************************)
GesturePoints == { <<512, 256>>, <<333, 77>> }

NextGesture ==
    \/ \E h \in SessionHats : ClickHat(h, 0, << 19, 7 >>)
    \/ \E l \in BagToSet(pendingLoads) : HatLoadDone(l, 0, << 19, 7 >>)
    \/ \E f \in AddFiles : ProcessFile(f, MaxDecoding)
    \/ \E d \in pendingFiles : FileDecoded(d)
    \/ \E cp \in GesturePoints : HandleMouseDown(cp)
    \/ \E cp \in GesturePoints : HandleMouseMove(cp, GestureMoves)
    \/ HandleMouseUp

SpecGesture == Init /\ [][NextGesture]_vars

(***************************************************************************)
(* Rotation sessions: the points are the centre and the top-right corner   *)
(* of a freshly placed overlay.                                            *)
(***************************************************************************)
RotationPoints == { <<512, 256>>, <<691, 77>> }

NextRotation ==
    \/ \E h \in SessionHats : ClickHat(h, 0, << 19, 7 >>)
    \/ \E l \in BagToSet(pendingLoads) : HatLoadDone(l, 0, << 19, 7 >>)
    \/ \E f \in AddFiles : ProcessFile(f, MaxDecoding)
    \/ \E d \in pendingFiles : FileDecoded(d)
    \/ \E cp \in RotationPoints : HandleMouseDown(cp)
    \/ \E cp \in RotationPoints : HandleMouseMove(cp, GestureMoves)
    \/ HandleMouseUp

SpecRotation == Init /\ [][NextRotation]_vars


(***************************************************************************)
(* Quarter-turn sessions: one overlay, turned from corner to corner.  The  *)
(* points are the top-right, bottom-left and top-left corners of a freshly *)
(* placed overlay; after a half turn its rotate handle is at the           *)
(* bottom-left one.                                                        *)
(***************************************************************************)
QuarterPoints == { <<691, 77>>, <<333, 435>>, <<333, 77>> }

\* number of overlay-add requests in a quarter-turn session
TurnRequests == 1

NextTurn ==
    \/ \E h \in SessionHats :
           nRequests < TurnRequests /\ ClickHat(h, 0, << 19, 7 >>)
    \/ \E l \in BagToSet(pendingLoads) : HatLoadDone(l, 0, << 19, 7 >>)
    \/ \E f \in AddFiles : ProcessFile(f, MaxDecoding)
    \/ \E d \in pendingFiles : FileDecoded(d)
    \/ \E cp \in QuarterPoints : HandleMouseDown(cp)
    \/ \E cp \in QuarterPoints : HandleMouseMove(cp, GestureMoves)
    \/ HandleMouseUp

SpecTurn == Init /\ [][NextTurn]_vars

(***************************************************************************)
(* Background sessions: files of every kind submitted while others are     *)
(* still decoding, over a scene with an overlay.  The point is the centre  *)
(* of a freshly placed overlay.                                            *)
(***************************************************************************)
\* number of background files that may be decoding at once in a
\* background session
FilesDecoding == 2

\* number of overlay-add requests in a background session
FilesRequests == 1

FilePoints == { <<512, 256>> }

NextFiles ==
    \/ \E f \in Files : ProcessFile(f, FilesDecoding)
    \/ \E d \in pendingFiles : FileDecoded(d)
    \/ \E d \in pendingFiles : FileDecodeFail(d)
    \/ \E h \in SessionHats :
           nRequests < FilesRequests /\ ClickHat(h, 0, << 19, 7 >>)
    \/ \E l \in BagToSet(pendingLoads) : HatLoadDone(l, 0, << 19, 7 >>)
    \/ \E cp \in FilePoints : HandleMouseDown(cp)
    \/ HandleMouseUp

SpecFiles == Init /\ [][NextFiles]_vars

(***************************************************************************)
(* Sizing sessions: backgrounds narrower and wider than the floor of the   *)
(* backing width, one at a time.                                           *)
(***************************************************************************)
BackgroundFiles == Files \cup { Avatar }

NextSizes ==
    \/ \E f \in BackgroundFiles : ProcessFile(f, MaxDecoding)
    \/ \E d \in pendingFiles : FileDecoded(d)
    \/ \E h \in SessionHats :
           nRequests < FilesRequests /\ ClickHat(h, 0, << 19, 7 >>)
    \/ \E l \in BagToSet(pendingLoads) : HatLoadDone(l, 0, << 19, 7 >>)
    \/ \E cp \in FilePoints : HandleMouseDown(cp)
    \/ HandleMouseUp

SpecSizes == Init /\ [][NextSizes]_vars

(***************************************************************************)
(* Handle sessions: one overlay, shrunk with its scale handle until the    *)
(* hit circles of its handles overlap.  The points are the bottom-right    *)
(* corner and the centre of a freshly placed overlay, and two points 32    *)
(* backing pixels to the right of and below the centre.                    *)
(***************************************************************************)
HandlePoints == { <<691, 435>>, <<512, 256>>, <<528, 256>>, <<512, 272>> }

NextHandles ==
    \/ \E h \in SessionHats :
           nRequests < TurnRequests /\ ClickHat(h, 0, << 19, 7 >>)
    \/ \E l \in BagToSet(pendingLoads) : HatLoadDone(l, 0, << 19, 7 >>)
    \/ \E f \in AddFiles : ProcessFile(f, MaxDecoding)
    \/ \E d \in pendingFiles : FileDecoded(d)
    \/ \E cp \in HandlePoints : HandleMouseDown(cp)
    \/ \E cp \in HandlePoints : HandleMouseMove(cp, SessionMoves)
    \/ HandleMouseUp

SpecHandles == Init /\ [][NextHandles]_vars

(***************************************************************************)
(* Selection sessions: overlays of both definitions stacked over one       *)
(* background and picked with the pointer.  The points are the centre of   *)
(* a freshly placed overlay, inside every overlay, and a point above it    *)
(* that is inside the square overlay alone.                                *)
(***************************************************************************)
SelectPoints == { <<512, 256>>, <<512, 106>> }

NextSelect ==
    \/ \E h \in HatDefs : ClickHat(h, 0, << 19, 7 >>)
    \/ \E l \in BagToSet(pendingLoads) : HatLoadDone(l, 0, << 19, 7 >>)
    \/ \E f \in AddFiles : ProcessFile(f, MaxDecoding)
    \/ \E d \in pendingFiles : FileDecoded(d)
    \/ \E cp \in SelectPoints : HandleMouseDown(cp)
    \/ HandleMouseUp

SpecSelect == Init /\ [][NextSelect]_vars

(***************************************************************************)
(* Move sessions: one move of the pointer in each of the three gestures,   *)
(* over one or two overlays.  The points are the centre, the top-right and *)
(* the bottom-right corner of a freshly placed overlay.                    *)
(***************************************************************************)
MovePoints == { <<512, 256>>, <<691, 77>>, <<691, 435>> }

NextMoves ==
    \/ \E h \in SessionHats : ClickHat(h, 0, << 19, 7 >>)
    \/ \E l \in BagToSet(pendingLoads) : HatLoadDone(l, 0, << 19, 7 >>)
    \/ \E f \in AddFiles : ProcessFile(f, MaxDecoding)
    \/ \E d \in pendingFiles : FileDecoded(d)
    \/ \E cp \in MovePoints : HandleMouseDown(cp)
    \/ \E cp \in MovePoints : HandleMouseMove(cp, SessionMoves)
    \/ HandleMouseUp

SpecMoves == Init /\ [][NextMoves]_vars

(***************************************************************************)
(* Render sessions: the renders that follow each other without a          *)
(* background and over one, for a background whose derived height is      *)
(* whole and for one whose derived height is not.                          *)
(***************************************************************************)
RenderFiles == { f \in Files : f.name = "a.png" } \cup { Banner }

NextRenders ==
    \/ \E f \in RenderFiles : ProcessFile(f, MaxDecoding)
    \/ \E d \in pendingFiles : FileDecoded(d)
    \/ \E h \in SessionHats : ClickHat(h, 0, << 19, 7 >>)
    \/ \E l \in BagToSet(pendingLoads) : HatLoadDone(l, 0, << 19, 7 >>)
    \/ \E cp \in FilePoints : HandleMouseDown(cp)
    \/ HandleMouseUp
    \/ HandleDownload

SpecRenders == Init /\ [][NextRenders]_vars

(***************************************************************************)
(* Export sessions: downloads and copies over a scene that is built and    *)
(* changed meanwhile.                                                      *)
(***************************************************************************)
NextExport ==
    \/ \E h \in SessionHats : ClickHat(h, 0, << 19, 7 >>)
    \/ \E l \in BagToSet(pendingLoads) : HatLoadDone(l, 0, << 19, 7 >>)
    \/ \E f \in AddFiles : ProcessFile(f, MaxDecoding)
    \/ \E d \in pendingFiles : FileDecoded(d)
    \/ \E cp \in AddPoints : HandleMouseDown(cp)
    \/ HandleDownload
    \/ CopyStart
    \/ \E c \in BagToSet(copies) : CopyBlobReady(c)
    \/ \E c \in BagToSet(copies) : CopySucceeds(c)
    \/ \E c \in BagToSet(copies) : CopyFails(c)
    \/ CopiedTimeout

SpecExport == Init /\ [][NextExport]_vars


(***************************************************************************)
(* Properties.                                                             *)
(***************************************************************************)
\* C1: in every reachable state selectedHatId is null or the uid of an
\* entry of hats.
SelectionIsPlaced ==
    selectedHatId = NoUid \/ \E i \in 1..Len(hats) : hats[i].uid = selectedHatId

\* a selection among two overlays while an export has completed
SelectionAmongTwo ==
    /\ Len(hats) >= 2
    /\ selectedHatId = hats[Len(hats)].uid
    /\ lastExport.kind # "none"

\* C2: a step in which a background decode completes ends with hats
\* empty, no selection and the decoded image as the background, whatever
\* the hats, the selection and the mode were.
BackgroundLoadResets ==
    [][ \A d \in pendingFiles :
            FileDecoded(d) =>
                /\ hats' = << >>
                /\ selectedHatId' = NoUid
                /\ image' = [name |-> d.name, w |-> d.w, h |-> d.h] ]_vars

\* the scene is empty in the middle of a gesture on an overlay that was
\* placed: a background load has reset it
ResetDuringGesture ==
    /\ image # NoImage
    /\ hats = << >>
    /\ selectedHatId = NoUid
    /\ mode # "NONE"
    /\ randomDraws > 0


\* C3: every overlay-add request appends one instance when its asset load
\* succeeds and none when it fails: no request ever has more than one
\* instance appended for it, whatever happens while its load is pending.
OneInstancePerRequest == \A r \in 1..MaxRequests : appended[r] <= 1

OneDecodePerPath == \A src \in DOMAIN decodes : decodes[src] <= 1


\* the handle of the selection that a press at the client point cp hits
PressedHandle(cp) ==
    HandleAt(hats, selectedHatId, loadedImages, GetCanvasCoords(cp, canvas).x,
             GetCanvasCoords(cp, canvas).y, HitRadius(canvas))

\* C6: a press on the delete handle removes exactly the entry of hats
\* whose uid is selectedHatId, keeps the others in order, and leaves no
\* selection and mode NONE; deleteSelectedHat without a selection changes
\* nothing.
DeleteRemovesSelection ==
    /\ [][ \A cp \in GesturePoints :
              (HandleMouseDown(cp) /\ PressedHandle(cp) = "delete") =>
                  LET i == FindIndex(hats, selectedHatId)
                  IN  /\ i # 0
                      /\ hats' = SubSeq(hats, 1, i - 1)
                                    \o SubSeq(hats, i + 1, Len(hats))
                      /\ selectedHatId' = NoUid
                      /\ mode' = "NONE" ]_vars
    /\ [](DeleteSelectedHat(hats, NoUid, mode)
              = [hats |-> hats, selectedHatId |-> NoUid, mode |-> mode])

\* the second of two placed overlays is gone and the first is left: it was
\* deleted (a background load would have removed both)
SecondOfTwoDeleted ==
    /\ randomDraws = 2
    /\ Len(hats) = 1
    /\ hats[1].uid = NewUid(0, 1)
    /\ selectedHatId = NoUid
    /\ mode = "NONE"

\* C7: in every reachable state every placed instance has a scale that is
\* a number greater than 0, never zero, negative or NaN.
ScaleIsPositive ==
    \A i \in 1..Len(hats) :
        /\ hats[i].scale # NaN
        /\ hats[i].scale = Infinity \/ hats[i].scale > 0

\* C8: a pointer-up (or touch-end, or pointer-leave) ends with mode NONE
\* and leaves the placed instances as the last pointer-move set them.
PointerUpEndsGesture ==
    [][ HandleMouseUp => (mode' = "NONE" /\ hats' = hats) ]_vars

\* after a gesture that moved the selection away from its baseline
MovedAndReleased ==
    /\ mode = "NONE"
    /\ nMoves > 0
    /\ \E i \in 1..Len(hats) :
          /\ hats[i].uid = selectedHatId
          /\ hats[i].x # startInteraction.startX


\* a Rotating gesture on hat: a press at the canvas point a, which takes
\* the baseline, and a move to the canvas point b
RotateGesture(hat, a, b) ==
    MoveHat(hat, "ROTATE", Baseline(a.x, a.y, hat), b.x, b.y)

\* a press at the canvas point p lands on the rotate handle of hat
OnRotateHandle(hat, p) ==
    HandleAt(<< hat >>, hat.uid, loadedImages, p.x, p.y, HitRadius(canvas))
        = "rotate"

\* where the pointer goes in the two gestures: the points of the session,
\* and the points to the right of and below the centre of a fresh overlay
TurnPoints == RotationPoints \cup { <<765, 256>>, <<512, 509>> }

\* C10: from every state between gestures, a Rotating gesture of the
\* selection from a to b followed by one from b back to a leaves its
\* rotation as it was.
RotationRoundTrip ==
    \A i \in 1..Len(hats), ca \in TurnPoints, cb \in TurnPoints :
        LET hat == hats[i]
            a == GetCanvasCoords(ca, canvas)
            b == GetCanvasCoords(cb, canvas)
            first == RotateGesture(hat, a, b)
            second == RotateGesture(first, b, a)
        IN  ( /\ image # NoImage
              /\ mode = "NONE"
              /\ hat.uid = selectedHatId
              /\ OnRotateHandle(hat, a)
              /\ OnRotateHandle(first, b) )
            => second.rotation = hat.rotation


\* C9: an export that has rendered the canvas without controls renders it
\* with controls last, on the download path and on both copy paths; the
\* canvas is without controls only while a copy is in flight.
ExportRestoresControls ==
    /\ (\E k \in 1..Len(lastExport.renders) : ~ lastExport.renders[k])
          => lastExport.renders[Len(lastExport.renders)]
    /\ ~ canvas.controls => copies # EmptyBag

\* a copy has ended on its failure path after rendering without controls
CopyFailedAfterRender ==
    /\ lastExport.kind = "copy"
    /\ ~ lastExport.result
    /\ lastExport.renders # << >>
    /\ copies = EmptyBag

\* C18: generateChristmasGreeting never rejects and resolves with a text that
\* is not empty; without a key, after a failed API call and after an empty
\* response the text is the fixed one of that case; the mock service
\* resolves with its fixed text.
GreetingAlwaysResolves ==
    /\ \A o \in ApiOutcomes :
           /\ GreetingAfterCall(o).settled = "resolved"
           /\ GreetingAfterCall(o).value # ""
    /\ greetingCall.stage = "settled" =>
           /\ greetingCall.result.settled = "resolved"
           /\ greetingCall.result.value # ""
           /\ (service = "gemini" /\ apiKey = "") =>
                  greetingCall.result.value = NO_KEY_TEXT
           /\ greetingCall.outcome.kind = "rejects" =>
                  greetingCall.result.value = ERROR_TEXT
           /\ (greetingCall.outcome.kind = "resolves"
                  /\ Falsy(greetingCall.outcome.text)) =>
                  greetingCall.result.value = EMPTY_TEXT
           /\ service = "mock" => greetingCall.result.value = EMPTY_TEXT
    /\ loading => greetingCall # NoCall

\* the text of the catch block is shown: a call to the API failed and
\* handleGenerate went on with the fallback
FallbackAfterFailure ==
    /\ greeting = ERROR_TEXT
    /\ ~ loading
    /\ greetingCall = NoCall

\* the point a quarter turn clockwise from the point a around the centre c
\* (the y axis of the canvas points down)
Clockwise90(c, a) ==
    [x |-> c.x - (a.y - c.y), y |-> c.y + (a.x - c.x)]

\* C11: a pointer-move in ROTATE mode to the point a quarter turn clockwise
\* (around the centre of the instance) from the point where the gesture
\* began sets rotation to the baseline rotation plus 90, whatever the
\* baseline rotation and the angle of the baseline point.
QuarterTurnAddsNinety ==
    [][ \A cp \in QuarterPoints :
            LET i == FindIndex(hats, selectedHatId)
                p == GetCanvasCoords(cp, canvas)
                a == [x |-> startInteraction.mouseX,
                      y |-> startInteraction.mouseY]
            IN  ( /\ HandleMouseMove(cp, GestureMoves)
                  /\ mode = "ROTATE"
                  /\ i # 0 )
                => ( p = Clockwise90([x |-> hats[i].x, y |-> hats[i].y], a)
                       => hats'[i].rotation
                              = startInteraction.startRotation + 90 )
      ]_vars

Max(a, b) == IF a >= b THEN a ELSE b

\* C12: the backing size derived from the background is the width
\* max(w, MIN_CANVAS_WIDTH) and the height h * width / w, the size of the
\* image itself when w >= MIN_CANVAS_WIDTH; a 512 x 512 background gives
\* 2048 x 2048.
RenderDimensionsKeepAspect ==
    /\ image # NoImage =>
          LET d == GetRenderDimensions(image)
          IN  /\ d.width = Max(image.w, MIN_CANVAS_WIDTH)
              /\ d.height = (image.h * d.width) \div image.w
              /\ image.w >= MIN_CANVAS_WIDTH => d.height = image.h
    /\ GetRenderDimensions([name |-> "e.png", w |-> 512, h |-> 512])
          = [width |-> 2048, height |-> 2048]

\* the placement of the new instance n over the background img, on hs
Placed(n, img, hs) ==
    /\ n.rotation = 0
    /\ ~ n.isMirrored
    /\ IF img = NoImage
       THEN n.x = DEFAULT_X /\ n.y = DEFAULT_Y /\ n.scale = ScaleUnit
       ELSE LET d == GetRenderDimensions(img)
                offset == IF hs # << >> THEN 20 ELSE 0
            IN  /\ n.scale = (35 * d.width * ScaleUnit)
                                 \div (100 * RasterWidth(n.src))
                /\ Abs(n.x - d.width \div 2) <= offset
                /\ Abs(n.y - d.height \div 3) <= offset

\* C13: the instance an overlay-add appends has rotation 0, is not
\* mirrored, and is placed by the background loaded when it is appended:
\* 35% of the backing width, centred, a third of the way down, offset by
\* at most 20 px over other instances; at (400, 300) with scale 1 when no
\* background is loaded.  A 100 x 40 raster over a 512 x 512 background
\* gets scale 7.168 at (1024, 682.67).
PlacementFollowsBackground ==
    /\ [][ \A l \in BagToSet(pendingLoads), dt \in ClockSteps, j \in Jitters :
              HatLoadDone(l, dt, j) => Placed(hats'[Len(hats')], image, hats)
       ]_vars
    /\ [][ \A h \in HatDefs, dt \in ClockSteps, j \in Jitters :
              (ClickHat(h, dt, j) /\ h.src \in loadedImages)
                  => Placed(hats'[Len(hats')], image, hats) ]_vars
    /\ [](LET n == NewHat([id |-> "hat-2", src |-> "/hats/2.png"],
                          [name |-> "e.png", w |-> 512, h |-> 512],
                          FALSE, NoUid, 0, 0)
          IN  n.scale = 7168 /\ n.x = 1024 /\ n.y = 682)

\* C14: when a background decode completes after another one has completed
\* while it was in flight, the background is the image of the one that
\* completes last, whichever of the two files was submitted first, and
\* hats is empty with no selection.
LastDecodeWins ==
    [][ \A d \in pendingFiles :
            (FileDecoded(d) /\ d.outlasted # { }) =>
                /\ image' = [name |-> d.name, w |-> d.w, h |-> d.h]
                /\ hats' = << >>
                /\ selectedHatId' = NoUid ]_vars

\* the background is a.png, submitted when no decode was in flight, and the
\* decode of b.jpg, submitted after it, completed first; an overlay had
\* been placed meanwhile
FirstSubmittedCompletedLast ==
    /\ image.name = "a.png"
    /\ lastDecode = [rank |-> 0, outlasted |-> { "b.jpg" }]
    /\ pendingFiles = { }
    /\ hats = << >>
    /\ selectedHatId = NoUid
    /\ randomDraws > 0

\* C15: a failed asset load leaves hats, selectedHatId and mode as they
\* are, adds no instance for its request, and does not clear hatToAdd.
FailedLoadAddsNothing ==
    [][ \A l \in BagToSet(pendingLoads) :
            HatLoadFail(l) =>
                /\ hats' = hats
                /\ selectedHatId' = selectedHatId
                /\ mode' = mode
                /\ appended' = appended
                /\ hatToAdd' = hatToAdd ]_vars

\* a request is still pending over a scene while none of its loads is in
\* flight and no instance was added for it: its load has failed
RequestLeftPending ==
    /\ hatToAdd # NoHat
    /\ pendingLoads = EmptyBag
    /\ decodes[hatToAdd.src] >= 1
    /\ appended[curReq] = 0
    /\ hats # << >>
    /\ mode = "DRAG"

\* C16: submitting a file whose type is not an image type leaves the
\* background, hats, selectedHatId and mode as they are and starts no
\* decode.
NonImageIgnored ==
    [][ \A f \in Files :
            (f.major # "image" /\ ProcessFile(f, FilesDecoding)) =>
                UNCHANGED << image, hats, selectedHatId, mode,
                             pendingFiles >> ]_vars

\* a scene in the middle of a drag with a decode in flight, where a file
\* can be submitted
SubmissionDuringDrag ==
    /\ image # NoImage
    /\ hats # << >>
    /\ selectedHatId # NoUid
    /\ mode = "DRAG"
    /\ Cardinality(pendingFiles) = 1

\* C17: copy() resolves to true when the blob was made and the clipboard
\* write succeeded, and to false without a background, with a null blob
\* and with a failed write; it resolves in every case; the copied
\* indicator comes on only with true.
CopyReportsOutcome ==
    /\ [][ \A c \in BagToSet(copies) :
              /\ CopySucceeds(c) =>
                    /\ c.stage = "clipboard"
                    /\ lastExport'.kind = "copy"
                    /\ lastExport'.result = TRUE
                    /\ isCopied'
              /\ CopyFails(c) =>
                    /\ lastExport'.kind = "copy"
                    /\ lastExport'.result = FALSE
                    /\ isCopied' = isCopied ]_vars
    /\ [][ (CopyStart /\ image = NoImage) =>
              /\ lastExport'.kind = "copy"
              /\ lastExport'.result = FALSE
              /\ isCopied' = isCopied
              /\ copies' = copies ]_vars
    /\ [][ (isCopied' /\ ~ isCopied) =>
              \E c \in BagToSet(copies) : CopySucceeds(c) ]_vars
    /\ [](lastExport.result \in BOOLEAN)

\* the indicator is on after a copy that resolved to true
CopiedShown ==
    /\ isCopied
    /\ lastExport.kind = "copy"
    /\ lastExport.result
    /\ copies = EmptyBag

\* C19: a press with a selection tests the hit circles of the four handles
\* of the selected instance before any body, in the order delete (TL),
\* rotate (TR), scale (BR), mirror (BL), and only the first circle that
\* holds the pointer takes effect: delete removes the instance and leaves
\* mode NONE; rotate and scale set their mode and take the pointer
\* position and the rotation, scale and position of the instance as the
\* baseline.
FirstHandleWins ==
    [][ \A cp \in HandlePoints :
            LET i == FindIndex(hats, selectedHatId)
                p == GetCanvasCoords(cp, canvas)
                c == GetTransformedCorners(hats[i])
                in(corner) == IsPointInCircle(p.x, p.y, corner.x, corner.y,
                                              HitRadius(canvas))
                baseline == [mouseX |-> p.x, mouseY |-> p.y,
                             startRotation |-> hats[i].rotation,
                             startScale |-> hats[i].scale,
                             startX |-> hats[i].x, startY |-> hats[i].y]
            IN  ( /\ HandleMouseDown(cp)
                  /\ i # 0
                  /\ HasCorners(hats[i], loadedImages) )
                => /\ in(c.tl) =>
                         /\ hats' = SubSeq(hats, 1, i - 1)
                                       \o SubSeq(hats, i + 1, Len(hats))
                         /\ selectedHatId' = NoUid
                         /\ mode' = "NONE"
                   /\ (~ in(c.tl) /\ in(c.tr)) =>
                         /\ mode' = "ROTATE"
                         /\ startInteraction' = baseline
                         /\ UNCHANGED << hats, selectedHatId >>
                   /\ (~ in(c.tl) /\ ~ in(c.tr) /\ in(c.br)) =>
                         /\ mode' = "SCALE"
                         /\ startInteraction' = baseline
                         /\ UNCHANGED << hats, selectedHatId >>
                   /\ (~ in(c.tl) /\ ~ in(c.tr) /\ ~ in(c.br) /\ in(c.bl)) =>
                         /\ Len(hats') = Len(hats)
                         /\ hats'[i].isMirrored = ~ hats[i].isMirrored
                         /\ UNCHANGED << selectedHatId, mode >>
      ]_vars

\* a press 32 px to the right of the centre of an overlay shrunk to a
\* tenth of its raster: the pointer is inside its body and inside the
\* circles of the rotate and the scale handle, and the gesture is ROTATE
RotateWonOverScale ==
    /\ mode = "ROTATE"
    /\ startInteraction.mouseX = 1056
    /\ startInteraction.mouseY = 512
    /\ startInteraction.startScale = MIN_SCALE
    /\ \E i \in 1..Len(hats) :
          /\ hats[i].uid = selectedHatId
          /\ hats[i].scale = MIN_SCALE
          /\ hats[i].x = 1024
          /\ hats[i].y = 512

\* C20: a press that hits no handle selects the last entry of hats whose
\* box holds the pointer: that entry moves to the end of hats, the others
\* keep their order, selectedHatId is its uid, mode is DRAG and the
\* baseline is the pointer position with the position of that instance.
TopmostBodySelected ==
    [][ \A cp \in SelectPoints :
            LET p == GetCanvasCoords(cp, canvas)
                inside(k) == /\ hats[k].src \in loadedImages
                             /\ IsPointInBody(hats[k], p.x, p.y)
                holders == { k \in 1..Len(hats) : inside(k) }
                t == CHOOSE k \in holders : \A j \in holders : j <= k
            IN  ( /\ HandleMouseDown(cp)
                  /\ PressedHandle(cp) = "none"
                  /\ holders # { } )
                => /\ hats' = SubSeq(hats, 1, t - 1)
                                 \o SubSeq(hats, t + 1, Len(hats))
                                 \o << hats[t] >>
                   /\ selectedHatId' = hats[t].uid
                   /\ mode' = "DRAG"
                   /\ startInteraction'.mouseX = p.x
                   /\ startInteraction'.mouseY = p.y
                   /\ startInteraction'.startX = hats[t].x
                   /\ startInteraction'.startY = hats[t].y
      ]_vars

\* the overlay placed first is the last of three and is being dragged from
\* the point above the centre: it was picked from under the two others
LowestRaised ==
    /\ Len(hats) = 3
    /\ hats[3].uid = NewUid(0, 1)
    /\ hats[1].uid = NewUid(0, 2)
    /\ hats[2].uid = NewUid(0, 3)
    /\ selectedHatId = hats[3].uid
    /\ mode = "DRAG"
    /\ startInteraction.mouseY = 212

\* C21: a press over a background that hits no handle of the selection and
\* no body clears the selection, leaves hats as they are, and leaves mode
\* NONE.
NoHitClearsSelection ==
    [][ \A cp \in AddPoints :
            LET p == GetCanvasCoords(cp, canvas)
            IN  ( /\ HandleMouseDown(cp)
                  /\ PressedHandle(cp) = "none"
                  /\ TopmostHit(hats, loadedImages, p.x, p.y) = 0 )
                => /\ selectedHatId' = NoUid
                   /\ hats' = hats
                   /\ mode' = "NONE" ]_vars

\* C22: a press on the mirror handle negates isMirrored of the selected
\* instance and nothing else: its other fields, the other instances, the
\* order of hats and selectedHatId stay, and mode is NONE afterwards; two
\* toggles in a row give back the same hats.
MirrorTogglesInPlace ==
    [][ \A cp \in QuarterPoints :
            LET i == FindIndex(hats, selectedHatId)
            IN  (HandleMouseDown(cp) /\ PressedHandle(cp) = "flip")
                => /\ Len(hats') = Len(hats)
                   /\ \A k \in 1..Len(hats) :
                         hats'[k] =
                             IF k = i
                             THEN [hats[k] EXCEPT
                                      !.isMirrored = ~ hats[k].isMirrored]
                             ELSE hats[k]
                   /\ selectedHatId' = selectedHatId
                   /\ mode' = "NONE"
                   /\ ToggleMirror(hats', selectedHatId') = hats ]_vars

\* C23: after every pointer-move of a DRAG gesture the position of the
\* selected instance is the position of the baseline plus the way of the
\* pointer from the baseline pointer, on each axis, whatever moves came
\* before and also outside the canvas.
DragFollowsPointer ==
    [][ \A cp \in GesturePoints :
            LET i == FindIndex(hats, selectedHatId)
                p == GetCanvasCoords(cp, canvas)
            IN  ( /\ HandleMouseMove(cp, GestureMoves)
                  /\ mode = "DRAG"
                  /\ i # 0 )
                => /\ hats'[i].x = startInteraction.startX
                                      + (p.x - startInteraction.mouseX)
                   /\ hats'[i].y = startInteraction.startY
                                      + (p.y - startInteraction.mouseY)
      ]_vars

\* the selection is being dragged, after two moves, with its centre above
\* the top edge of the canvas
DraggedOffCanvas ==
    /\ mode = "DRAG"
    /\ nMoves = 2
    /\ \E i \in 1..Len(hats) :
          /\ hats[i].uid = selectedHatId
          /\ hats[i].y < 0
          /\ hats[i].y = startInteraction.startY
                            + (154 - startInteraction.mouseY)

\* the distance of the canvas point (x, y) from the centre of hat
CentreDistance(hat, x, y) ==
    Sqrt((x - hat.x) * (x - hat.x) + (y - hat.y) * (y - hat.y))

\* a <= b on the values of a scale: false when one of them is NaN
NumberLeq(a, b) ==
    /\ a # NaN
    /\ b # NaN
    /\ b = Infinity \/ (a # Infinity /\ a <= b)

\* C24: after a pointer-move of a SCALE gesture the scale of the selected
\* instance is max(0.1, baseline scale * d / d0), for the distances d of the
\* pointer and d0 of the baseline pointer from the centre of the instance:
\* a number, at least 0.1, and for one baseline no smaller at a larger
\* distance.
ScaleFollowsDistance ==
    [][ \A cp \in GesturePoints :
            LET i == FindIndex(hats, selectedHatId)
                p == GetCanvasCoords(cp, canvas)
                si == startInteraction
                d == CentreDistance(hats[i], p.x, p.y)
                d0 == CentreDistance(hats[i], si.mouseX, si.mouseY)
                at(cq) == LET q == GetCanvasCoords(cq, canvas)
                          IN  CentreDistance(hats[i], q.x, q.y)
            IN  ( /\ HandleMouseMove(cp, GestureMoves)
                  /\ mode = "SCALE"
                  /\ i # 0 )
                => /\ NumberLeq(MIN_SCALE, hats'[i].scale)
                   /\ (d0 # 0 /\ IsFinite(si.startScale)) =>
                         hats'[i].scale
                             = Max(MIN_SCALE, (si.startScale * d) \div d0)
                   /\ \A cq \in GesturePoints :
                         /\ at(cq) <= d =>
                               NumberLeq(NewScale(si.startScale, at(cq), d0),
                                         hats'[i].scale)
                         /\ d <= at(cq) =>
                               NumberLeq(hats'[i].scale,
                                         NewScale(si.startScale, at(cq), d0))
      ]_vars

\* C25: a pointer-move is handled only with a mode other than NONE and a
\* selection; it then changes the selected instance alone, x and y in
\* DRAG, rotation in ROTATE, scale in SCALE, and leaves the other
\* instances, the length and order of hats, selectedHatId, mode and the
\* baseline as they are.
MoveChangesOnlySelection ==
    [][ \A cp \in MovePoints :
            LET i == FindIndex(hats, selectedHatId)
            IN  HandleMouseMove(cp, SessionMoves)
                => /\ mode # "NONE"
                   /\ selectedHatId # NoUid
                   /\ Len(hats') = Len(hats)
                   /\ \A k \in 1..Len(hats) : k # i => hats'[k] = hats[k]
                   /\ (i # 0 /\ mode = "DRAG") =>
                         hats'[i] = [hats[i] EXCEPT !.x = hats'[i].x,
                                                    !.y = hats'[i].y]
                   /\ (i # 0 /\ mode = "ROTATE") =>
                         hats'[i] = [hats[i] EXCEPT
                                        !.rotation = hats'[i].rotation]
                   /\ (i # 0 /\ mode = "SCALE") =>
                         hats'[i] = [hats[i] EXCEPT !.scale = hats'[i].scale]
                   /\ UNCHANGED << selectedHatId, mode, startInteraction,
                                   image, loadedImages >>
      ]_vars

\* the selected one of two overlays has been turned with its rotate handle
\* and the other one is as it was placed
OneOfTwoTurned ==
    /\ mode = "ROTATE"
    /\ nMoves = 1
    /\ Len(hats) = 2
    /\ hats[2].uid = selectedHatId
    /\ hats[2].rotation # 0
    /\ hats[1].rotation = 0

\* C26: a render assigns the backing size of the canvas only when the
\* derived size differs from the size the canvas has: over renders that
\* follow each other with the same background, or without a background, the
\* size is assigned at most once.
SizeAssignedOnce == ~ canvas.resized

\* C27: the probe asks for 1.png, 2.png, ... one after another and appends
\* one definition for each load that succeeds, so that the list is always
\* the definitions of the indices 1..k in order, each with the id, the
\* name and the src of its index; it stops at the first load that fails,
\* issues at most 50 loads, and appends nothing after the unmount.
ProbeListsInOrder ==
    /\ [](\A i \in 1..Len(localHats) : localHats[i] = LocalHat(i, i))
    /\ [](nLoads <= maxIndex)
    /\ [](nLoads <= Len(localHats) + 1)
    /\ [](probing => nLoads = Len(localHats) + 1)
    /\ [][ProbeFailed => ~ probing']_vars
    /\ [][~ probing => (~ probing' /\ nLoads' = nLoads)]_vars
    /\ [][~ active => localHats' = localHats]_vars

\* C28: whenever mode is DRAG, ROTATE or SCALE there is a selection and the
\* stored baseline was taken from the instance that is selected: a step
\* that begins a gesture, or that changes the selection or the baseline
\* while a gesture is on, leaves the baseline of the instance selected
\* after it, also when a background load or an overlay-add completes in
\* the middle of a gesture.
BaselineOfSelection ==
    /\ [](mode # "NONE" => selectedHatId # NoUid)
    /\ [][ ( /\ mode' # "NONE"
             /\ \/ mode = "NONE"
                \/ selectedHatId' # selectedHatId
                \/ startInteraction' # startInteraction )
           => \E i \in 1..Len(hats) :
                 /\ hats[i].uid = selectedHatId'
                 /\ startInteraction'
                       = Baseline(startInteraction'.mouseX,
                                  startInteraction'.mouseY, hats[i]) ]_vars

\* C29: if selectedHatId is not null then hats is not empty and the
\* selected instance is its last entry: adding an overlay and picking one
\* by its body put it at the end, and deleting clears the selection.
SelectedIsLast ==
    selectedHatId # NoUid
        => /\ hats # << >>
           /\ hats[Len(hats)].uid = selectedHatId

\* the overlay placed first was picked from under the second and released:
\* it is the second of two and selected
FirstPickedOverSecond ==
    /\ Len(hats) = 2
    /\ hats[1].uid = NewUid(0, 2)
    /\ hats[2].uid = NewUid(0, 1)
    /\ selectedHatId = NewUid(0, 1)
    /\ mode = "NONE"

\* C30: when a copy completes, the canvas shows the scene of that moment:
\* the background rendered is the current background, the instances painted
\* are the current hats and the selection painted is the current
\* selection, also when a press, an overlay-add or a background load
\* changed the scene while the blob or the clipboard write was pending.
CopyEndsOnCurrentScene ==
    [][ BagCardinality(copies') < BagCardinality(copies)
            => /\ canvas'.rendered = image'.name
               /\ canvas'.hats = hats'
               /\ canvas'.selected = selectedHatId' ]_vars

\* C31: the asset cache holds the raster of every placed instance and
\* never loses an entry, so draw paints every entry of hats and the hit
\* test skips none: at the centre of an instance whose scale is a number
\* it finds that instance or one above it.
AssetsStayCached ==
    /\ [](\A i \in 1..Len(hats) : hats[i].src \in loadedImages)
    /\ [][loadedImages \subseteq loadedImages']_vars
    /\ [](Painted(hats, loadedImages) = hats)
    /\ [](\A i \in 1..Len(hats) :
             hats[i].scale \notin { NaN, Infinity }
                => TopmostHit(hats, loadedImages, hats[i].x, hats[i].y) >= i)

\* instances of both definitions are placed over a background and both
\* rasters are cached
BothAssetsPlaced ==
    /\ image # NoImage
    /\ Len(hats) >= 2
    /\ \E i, k \in 1..Len(hats) : hats[i].src # hats[k].src
    /\ \A h \in HatDefs : h.src \in loadedImages


====
